---- MODULE Spec2Model ----
(***************************************************************************)
(* Conflict detection and mediation engine of muppet-bot.                  *)
(*                                                                         *)
(* The module models ConflictMediator (src/src/conflict_mediator.rs), the  *)
(* per-channel rate limiter of mediations, ConflictDetector                *)
(* (src/src/conflict_detector.rs), the scorer of texts and windows, and    *)
(* the orchestrator flow CommandHandler::check_and_mediate_conflicts       *)
(* (src/src/commands.rs) that consults both.                               *)
(*                                                                         *)
(* Time is the reading of the monotonic clock in whole seconds.  A DashMap *)
(* is a function whose DOMAIN is the set of keys present.  An Option is a  *)
(* sequence of length 0 (None) or 1 (Some).                                *)
(***************************************************************************)
EXTENDS Integers, Sequences, FiniteSets, TLC

\* ------------------------------------------------------------------------
\* Bounds of the model
\* ------------------------------------------------------------------------
TickSecs == 600            \* the clock advances in steps of this many seconds
MaxTime == 4800            \* the clock stops here
FlowMaxTime == 1200        \* the clock stops here while flows run
MaxCap == 2                \* max_interventions_per_hour ranges over 0..MaxCap
LongCooldownMinutes == 20  \* cooldown_minutes is 0 or this
MaxRequests == 2           \* RateLimiter.max_requests
WindowSecs == 1200         \* RateLimiter.time_window, seconds
LimiterMaxTime == 2400     \* the clock stops here while the limiter is called
MaxRecords == 2            \* recorded interventions kept by the channels together
MaxWords == 4              \* words of a message
MaxPieces == 3             \* pieces of a conflict type
MaxWindow == 4             \* messages of a window
Gap == 60                  \* seconds between two messages, when not 0

Channels == {"c1", "c2"}

Flows == {"f1", "f2"}      \* concurrent runs of check_and_mediate_conflicts

Tasks == {"t1", "t2"}      \* concurrent callers of the mediator

Contended == {"c1"}        \* the channels the concurrent callers work on

Limited == {"u1", "u2"}    \* the users whose messages are rate limited

\* ------------------------------------------------------------------------
\* Program constants
\* ------------------------------------------------------------------------
HourSecs == 3600           \* Duration::from_secs(3600)
SecsPerMinute == 60        \* cooldown_minutes * 60, as_secs() / 60
MinutesNever == -1         \* stands for u64::MAX in minutes_since_last
HandlerMaxPerHour == 999   \* ConflictMediator::new(999, ...) of CommandHandler
DefaultCooldownMinutes == 5 \* unwrap_or(5) of the guild's mediation_cooldown
TimeWindow == 120          \* detect_heated_argument(&recent_messages, 120)

VARIABLES
    now,                         \* Instant::now()
    max_interventions_per_hour,  \* ConflictMediator.max_interventions_per_hour
    mediation_cooldown,          \* ConflictMediator.mediation_cooldown, seconds
    channel_interventions,       \* DashMap<String, Instant>
    hourly_counts,               \* DashMap<String, Vec<Instant>>
    last,                        \* the last completed call and what it returned
    history,                     \* per channel: instants recorded since its reset
    phase,                       \* per channel: "new", "reset", "allowed" or "used"
    pc,                          \* per flow: the await it is suspended at
    flow,                        \* per flow: the locals of check_and_mediate_conflicts
    conflict_detection,          \* table conflict_detection, row id = index
    mediation_history,           \* table mediation_history
    attempts,                    \* per channel: instants at which a send started
    inspected,                   \* the window the last step of a flow looked at
    content,                     \* the text of a message, word by word
    score,                       \* what get_conflict_score returned for content
    window,                      \* the stored messages of a channel, oldest first
    verdict,                     \* what detect_heated_argument returned for window
    conflict_type,               \* the conflict type a response is asked for
    response,                    \* what get_mediation_response returned for it
    calls,                       \* per task: the mediator call it is inside
    requests,                    \* RateLimiter.requests: DashMap<String, Vec<Instant>>
    shards,                      \* per user: the shard of requests its key hashes to
    callers,                     \* per task: the RateLimiter call it is inside
    granted,                     \* per user: the calls that returned true less than
                                 \* time_window ago, by their instants
    answer                       \* the last call of the limiter that returned

vars == <<now, max_interventions_per_hour, mediation_cooldown,
          channel_interventions, hourly_counts, last,
          history, phase, pc, flow, conflict_detection, mediation_history,
          attempts, inspected, content, score, window, verdict,
          conflict_type, response, calls, requests, shards, callers, granted,
          answer>>

\* the state of ConflictDetector's callers: a text and a window under analysis
detection == <<content, score, window, verdict>>

\* the conflict type and the canned response of get_mediation_response
responder == <<conflict_type, response>>

\* RateLimiter and its callers
limiter == <<requests, shards, callers, granted, answer>>

\* the state that neither the mediator's calls, nor the detector, nor the
\* flows of check_and_mediate_conflicts touch
apart == <<responder, calls, limiter>>

\* the mediator, the store and the flows
handler_state == <<now, max_interventions_per_hour, mediation_cooldown,
                   channel_interventions, hourly_counts, last,
                   history, phase, pc, flow, conflict_detection,
                   mediation_history, attempts, inspected>>

\* the state of CommandHandler apart from the detector's inputs
handler == <<now, max_interventions_per_hour, mediation_cooldown,
             channel_interventions, hourly_counts, last,
             history, phase, pc, flow, conflict_detection, mediation_history,
             attempts, inspected, apart>>

mediator == <<channel_interventions, hourly_counts>>

database == <<conflict_detection, mediation_history>>

flows == <<pc, flow, conflict_detection, mediation_history, attempts>>

\* ------------------------------------------------------------------------
\* DashMap operations
\* ------------------------------------------------------------------------
Insert(m, k, v) == [x \in (DOMAIN m) \cup {k} |-> IF x = k THEN v ELSE m[x]]

Remove(m, k) == [x \in (DOMAIN m) \ {k} |-> m[x]]

EmptyMap == [x \in {} |-> 0]

\* ------------------------------------------------------------------------
\* ConflictMediator::new
\* ------------------------------------------------------------------------
new(max, cooldown_minutes) ==
    /\ max_interventions_per_hour = max
    /\ mediation_cooldown = cooldown_minutes * SecsPerMinute
    /\ channel_interventions = EmptyMap
    /\ hourly_counts = EmptyMap

\* ------------------------------------------------------------------------
\* ConflictMediator::can_intervene
\* ------------------------------------------------------------------------
InCooldownNever(elapsed, cooldown) == FALSE

InCooldownInclusive(elapsed, cooldown) == elapsed <= cooldown

\* last_time.elapsed() < self.mediation_cooldown
InCooldown(elapsed, cooldown) == elapsed < cooldown

\* the early return of the cooldown check
CooldownBlocks(c) ==
    /\ c \in DOMAIN channel_interventions
    /\ InCooldown(now - channel_interventions[c], mediation_cooldown)

KeptNewerOrEqual(time, one_hour_ago) == time >= one_hour_ago

\* the predicate of retain: time > one_hour_ago
Kept(time, one_hour_ago) == time > one_hour_ago

Retain(times, one_hour_ago) ==
    SelectSeq(times, LAMBDA time : Kept(time, one_hour_ago))

\* entry(channel_id).or_insert_with(Vec::new)
EntryOrEmpty(c) == IF c \in DOMAIN hourly_counts THEN hourly_counts[c] ELSE <<>>

UnderLimitInclusive(len, max) == len <= max

\* count_ref.len() < self.max_interventions_per_hour
UnderLimit(len, max) == len < max

\* the value can_intervene returns
can_intervene_result(c) ==
    IF CooldownBlocks(c)
    THEN FALSE
    ELSE UnderLimit(Len(Retain(EntryOrEmpty(c), now - HourSecs)),
                    max_interventions_per_hour)

can_intervene_counts_recording(c) ==
    IF CooldownBlocks(c)
    THEN hourly_counts
    ELSE LET kept == Retain(EntryOrEmpty(c), now - HourSecs)
         IN  Insert(hourly_counts, c,
                    IF UnderLimit(Len(kept), max_interventions_per_hour)
                    THEN Append(kept, now) ELSE kept)

\* hourly_counts as can_intervene leaves it
can_intervene_counts(c) ==
    IF CooldownBlocks(c)
    THEN hourly_counts
    ELSE Insert(hourly_counts, c, Retain(EntryOrEmpty(c), now - HourSecs))

\* ------------------------------------------------------------------------
\* ConflictMediator::record_intervention
\* ------------------------------------------------------------------------
\* self.channel_interventions.insert(channel_id, now)
record_intervention_last(c) == Insert(channel_interventions, c, now)

\* entry(channel_id).or_insert_with(Vec::new).push(now)
record_intervention_counts(c) ==
    Insert(hourly_counts, c, Append(EntryOrEmpty(c), now))

\* ------------------------------------------------------------------------
\* ConflictMediator::get_channel_stats
\* ------------------------------------------------------------------------
NoStats ==
    [interventions_last_hour |-> 0, minutes_since_last_intervention |-> 0,
     can_intervene |-> FALSE, cooldown_minutes_remaining |-> 0]

Elapsed(c) == now - channel_interventions[c]

\* times.iter().filter(|t| t > one_hour_ago).count(), 0 without an entry
stats_count(c) == Len(Retain(EntryOrEmpty(c), now - HourSecs))

MediationStats(c) ==
    LET can_intervene_now == can_intervene_result(c)
        elapsed == IF c \in DOMAIN channel_interventions THEN Elapsed(c) ELSE 0
    IN  [interventions_last_hour |-> stats_count(c),
         minutes_since_last_intervention |->
             IF c \in DOMAIN channel_interventions
             THEN Elapsed(c) \div SecsPerMinute
             ELSE MinutesNever,
         can_intervene |-> can_intervene_now,
         cooldown_minutes_remaining |->
             IF can_intervene_now THEN 0
             ELSE IF elapsed < mediation_cooldown
                  THEN (mediation_cooldown - elapsed) \div SecsPerMinute
                  ELSE 0]

\* ------------------------------------------------------------------------
\* ConflictMediator::reset_channel
\* ------------------------------------------------------------------------
reset_channel_last_all(c) == EmptyMap

reset_channel_last(c) == Remove(channel_interventions, c)

reset_channel_counts_kept(c) == hourly_counts

reset_channel_counts(c) == Remove(hourly_counts, c)

\* ------------------------------------------------------------------------
\* Observers
\* ------------------------------------------------------------------------
\* last is the last call completed at this clock reading: what it returned,
\* the phase of its channel before it, and whether it came right after a
\* can_intervene or get_channel_stats on the same channel.
\* phase[c] is "new" while c was never referenced, "reset" once
\* reset_channel(c) completed, "allowed" when the last call on c was a
\* can_intervene(c) that returned true, and "used" otherwise.
NoCall == [op |-> "none", ch |-> "c1", result |-> FALSE, stats |-> NoStats,
           before |-> "new", again |-> FALSE]

Call(op, c, r, st) ==
    [op |-> op, ch |-> c, result |-> r, stats |-> st, before |-> phase[c],
     again |-> last.op \in {"can_intervene", "get_channel_stats"} /\ last.ch = c]

\* the number of instants of h inside the 3600 seconds that end at t
InWindow(h, t) == Cardinality({i \in 1..Len(h) : t - h[i] < HourSecs})

Latest(h) == h[Len(h)]

\* a task that is inside no call of the limiter
NoCaller == [op |-> "none", user |-> "u1", at |-> "idle", now |-> 0,
             wake |-> 0, guard |-> FALSE]

NoAnswer == [op |-> "none", user |-> "u1", result |-> FALSE, panicked |-> FALSE]

\* a task that is inside no call
NoTask == [op |-> "none", ch |-> "c1", at |-> "idle", now |-> 0]

TotalRecords == Len(history["c1"]) + Len(history["c2"])

\* ------------------------------------------------------------------------
\* Initial state
\* ------------------------------------------------------------------------
NoFlow ==
    [ch |-> "c1", last_mediation_ts |-> <<>>, conflict_id |-> 0,
     mediation_text |-> "",
     sent |-> "none", attempted |-> FALSE, records |-> 0,
     read_failed |-> FALSE, mediation |-> "none"]

InitButShards ==
    /\ inspected = <<>>
    /\ content = <<>>
    /\ score = <<>>
    /\ window = <<>>
    /\ verdict = <<>>
    /\ conflict_type = <<>>
    /\ response = <<>>
    /\ calls = [t \in Tasks |-> NoTask]
    /\ requests = EmptyMap
    /\ callers = [t \in Tasks |-> NoCaller]
    /\ granted = [u \in Limited |-> <<>>]
    /\ answer = NoAnswer
    /\ now = 0
    /\ last = NoCall
    /\ history = [c \in Channels |-> <<>>]
    /\ phase = [c \in Channels |-> "new"]
    /\ pc = [f \in Flows |-> "idle"]
    /\ flow = [f \in Flows |-> NoFlow]
    /\ conflict_detection = <<>>
    /\ mediation_history = <<>>
    /\ attempts = [c \in Channels |-> <<>>]

InitRest ==
    /\ shards = [u \in Limited |-> 1]
    /\ InitButShards

\* RateLimiter::new: DashMap::new seeds its hasher at random, so two keys may
\* or may not share a shard
LimiterInit ==
    /\ new(HandlerMaxPerHour, DefaultCooldownMinutes)
    /\ shards \in {[u \in Limited |-> 1],
                   [u \in Limited |-> IF u = "u1" THEN 1 ELSE 2]}
    /\ InitButShards

Init ==
    /\ \E max \in 0..MaxCap, cooldown_minutes \in {0, LongCooldownMinutes} :
           new(max, cooldown_minutes)
    /\ InitRest

config == <<max_interventions_per_hour, mediation_cooldown>>

\* ------------------------------------------------------------------------
\* The calls of the mediator, each one step
\* ------------------------------------------------------------------------
can_intervene(c) ==
    /\ hourly_counts' = can_intervene_counts(c)
    /\ last' = Call("can_intervene", c, can_intervene_result(c), NoStats)
    /\ phase' = [phase EXCEPT
                   ![c] = IF can_intervene_result(c) THEN "allowed" ELSE "used"]
    /\ UNCHANGED <<now, config, channel_interventions, history, flows>>
    /\ UNCHANGED <<inspected, detection, apart>>

record_intervention(c) ==
    /\ TotalRecords < MaxRecords
    /\ channel_interventions' = record_intervention_last(c)
    /\ hourly_counts' = record_intervention_counts(c)
    /\ last' = Call("record_intervention", c, FALSE, NoStats)
    /\ history' = [history EXCEPT ![c] = Append(@, now)]
    /\ phase' = [phase EXCEPT ![c] = "used"]
    /\ UNCHANGED <<now, config, flows>>
    /\ UNCHANGED <<inspected, detection, apart>>

\* record_intervention by a caller that has just been allowed to intervene
checked_record_intervention(c) ==
    /\ phase[c] = "allowed"
    /\ record_intervention(c)

get_channel_stats(c) ==
    /\ hourly_counts' = can_intervene_counts(c)
    /\ last' = Call("get_channel_stats", c, can_intervene_result(c),
                    MediationStats(c))
    /\ phase' = [phase EXCEPT ![c] = "used"]
    /\ UNCHANGED <<now, config, channel_interventions, history, flows>>
    /\ UNCHANGED <<inspected, detection, apart>>

reset_channel(c) ==
    /\ channel_interventions' = reset_channel_last(c)
    /\ hourly_counts' = reset_channel_counts(c)
    /\ last' = Call("reset_channel", c, FALSE, NoStats)
    /\ history' = [history EXCEPT ![c] = <<>>]
    /\ phase' = [phase EXCEPT ![c] = "reset"]
    /\ UNCHANGED <<now, config, flows>>
    /\ UNCHANGED <<inspected, detection, apart>>

\* the clock advances
Advance(limit) ==
    /\ now + TickSecs <= limit
    /\ now' = now + TickSecs
    /\ last' = NoCall
    /\ UNCHANGED <<config, mediator, history, phase, flows>>
    /\ inspected' = <<>>
    /\ UNCHANGED <<detection, apart>>

\* time passes between calls of the mediator
Tick == Advance(MaxTime)

Next ==
    \/ \E c \in Channels : can_intervene(c)
    \/ \E c \in Channels : record_intervention(c)
    \/ \E c \in Channels : get_channel_stats(c)
    \/ \E c \in Channels : reset_channel(c)
    \/ Tick

Spec == Init /\ [][Next]_vars

\* callers that record only right after can_intervene allowed it
CheckedNext ==
    \/ \E c \in Channels : can_intervene(c)
    \/ \E c \in Channels : checked_record_intervention(c)
    \/ \E c \in Channels : get_channel_stats(c)
    \/ \E c \in Channels : reset_channel(c)
    \/ Tick

CheckedSpec == Init /\ [][CheckedNext]_vars

\* ------------------------------------------------------------------------
\* f32 arithmetic, idealised: a number is a fraction <<p, q>> with q > 0;
\* numbers are compared with Eq, Gt and Ge, never as values
\* ------------------------------------------------------------------------
Frac(p, q) == <<p, q>>

Zero == Frac(0, 1)

One == Frac(1, 1)

Plus(x, y) ==
    IF x[2] = y[2]
    THEN Frac(x[1] + y[1], x[2])
    ELSE Frac(x[1] * y[2] + y[1] * x[2], x[2] * y[2])

Minus(x, y) == Frac(x[1] * y[2] - y[1] * x[2], x[2] * y[2])

Times(x, y) == Frac(x[1] * y[1], x[2] * y[2])

Eq(x, y) == x[1] * y[2] = y[1] * x[2]

Gt(x, y) == x[1] * y[2] > y[1] * x[2]

Ge(x, y) == x[1] * y[2] >= y[1] * x[2]

\* f32::min
MinOf(x, y) == IF Gt(x, y) THEN y ELSE x

\* ------------------------------------------------------------------------
\* ConflictDetector::get_conflict_score
\*
\* A text is a sequence of characters.  The texts of the model are made of
\* the words below; of the 92 entries of HOSTILE_KEYWORDS exactly "fk",
\* "bs" and "kys" can occur in a text over their characters.
\* ------------------------------------------------------------------------
Words ==
    {<<"b", "s">>, <<"f", "k">>, <<"k", "y", "s">>, <<"B", "S">>,
     <<"O", "O", "O", "O", "O">>, <<"o", "o", "o", "o">>, <<"O">>,
     <<"!">>, <<"?">>, <<" ">>}

HOSTILE_KEYWORDS == {<<"f", "k">>, <<"b", "s">>, <<"k", "y", "s">>}

\* char::is_uppercase and the class [A-Z] agree on the characters of Words
is_uppercase(ch) == ch \in {"B", "S", "O"}

is_alphabetic(ch) == ch \in {"b", "s", "f", "k", "y", "o", "B", "S", "O"}

to_lowercase(text) ==
    [i \in 1..Len(text) |->
        CASE text[i] = "B" -> "b"
          [] text[i] = "S" -> "s"
          [] text[i] = "O" -> "o"
          [] OTHER -> text[i]]

\* str::contains
contains(text, pattern) ==
    \E i \in 1..(Len(text) - Len(pattern) + 1) :
        SubSeq(text, i, i + Len(pattern) - 1) = pattern

\* HOSTILE_KEYWORDS.iter().filter(|k| lowercase_content.contains(k)).count()
keyword_count(text) ==
    Cardinality({keyword \in HOSTILE_KEYWORDS :
                    contains(to_lowercase(text), keyword)})

calculate_caps_percentage(text) ==
    LET letters == SelectSeq(text, is_alphabetic)
        caps_count == Len(SelectSeq(letters, is_uppercase))
    IN  IF letters = <<>> THEN Zero ELSE Frac(caps_count, Len(letters))

\* Regex [!?]{3,}: is_match
excessive_punctuation(text) ==
    \E i \in 1..(Len(text) - 2) :
        \A j \in i..(i + 2) : text[j] \in {"!", "?"}

\* the length of the longest match of [A-Z]* that starts at position i
RECURSIVE CapsFrom(_, _)
CapsFrom(text, i) ==
    IF i <= Len(text) /\ is_uppercase(text[i])
    THEN 1 + CapsFrom(text, i + 1)
    ELSE 0

\* Regex [A-Z]{5,}: find_iter(content).count() from position i on; matches
\* are leftmost, greedy and do not overlap
RECURSIVE FindIterFrom(_, _)
FindIterFrom(text, i) ==
    IF i > Len(text) THEN 0
    ELSE IF CapsFrom(text, i) >= 5
         THEN 1 + FindIterFrom(text, i + CapsFrom(text, i))
         ELSE FindIterFrom(text, i + 1)

caps_pattern(text) == FindIterFrom(text, 1)

KeywordScoreUncapped(count) == Times(Frac(count, 1), Frac(4, 10))

\* (keyword_count as f32 * 0.4).min(0.8)
KeywordScore(count) == MinOf(Times(Frac(count, 1), Frac(4, 10)), Frac(8, 10))

\* score after each of the four checks, then score.min(1.0)
ScoreOf(count, caps_percentage, punctuated, matches) ==
    LET s1 == KeywordScore(count)
        s2 == IF Gt(caps_percentage, Frac(2, 10))
              THEN Plus(s1, Frac(3, 10)) ELSE s1
        s3 == IF punctuated THEN Plus(s2, Frac(2, 10)) ELSE s2
        s4 == IF matches >= 2 THEN Plus(s3, Frac(2, 10)) ELSE s3
    IN  MinOf(s4, One)

\* each check runs once and its result is bound, as the code's lets do
get_conflict_score_result(text) ==
    CHOOSE s \in {ScoreOf(count, caps_percentage, punctuated, matches) :
                     count \in {keyword_count(text)},
                     caps_percentage \in {calculate_caps_percentage(text)},
                     punctuated \in {excessive_punctuation(text)},
                     matches \in {caps_pattern(text)}} : TRUE

\* the characters of a message typed word by word
RECURSIVE Text(_)
Text(words) ==
    IF words = <<>> THEN <<>> ELSE Head(words) \o Text(Tail(words))

\* a word is added to the message being written
type(word) ==
    /\ Len(content) < MaxWords
    /\ content' = Append(content, word)
    /\ score' = <<>>
    /\ UNCHANGED <<window, verdict, handler>>

\* the detector scores the message
get_conflict_score ==
    /\ score = <<>>
    /\ score' = <<get_conflict_score_result(Text(content))>>
    /\ UNCHANGED <<content, window, verdict, handler>>

ScoreNext ==
    \/ \E word \in Words : type(word)
    \/ get_conflict_score

\* CommandHandler::new with the defaults of the configuration
DetectorInit ==
    /\ new(HandlerMaxPerHour, DefaultCooldownMinutes)
    /\ InitRest

ScoreSpec == DetectorInit /\ [][ScoreNext]_vars

\* ------------------------------------------------------------------------
\* ConflictDetector::detect_heated_argument
\*
\* A message is (user_id, content, timestamp); the timestamp is the number
\* its text parses to.  A window is chronological: timestamps never fall.
\* ------------------------------------------------------------------------
Users == {"u1", "u2", "u3"}

Calm == <<"o", "o", "o", "o">>

Shout == <<"O", "!", "!", "!">>

Hostile == <<"b", "s", " ", "f", "k">>

Contents == {Calm, Shout, Hostile}

\* get_conflict_score of each content of the model, computed once
Scores == [text \in Contents |-> get_conflict_score_result(text)]

Message(u, text, t) == [user_id |-> u, content |-> text, timestamp |-> t]

\* user_messages: the number of messages of each author of the window
user_messages(messages) ==
    [u \in {messages[i].user_id : i \in 1..Len(messages)} |->
        Cardinality({i \in 1..Len(messages) : messages[i].user_id = u})]

RapidWithinAlways(duration, time_window_seconds) == TRUE

\* duration <= time_window_seconds
RapidWithin(duration, time_window_seconds) == duration <= time_window_seconds

\* Option<f32>
detect_rapid_exchange(messages, time_window_seconds) ==
    IF Len(messages) < 2 THEN <<>>
    ELSE LET counts == user_messages(messages)
             duration == messages[Len(messages)].timestamp
                             - messages[1].timestamp
         IN  IF /\ Cardinality(DOMAIN counts) = 2
                /\ \A u \in DOMAIN counts : counts[u] >= 2
                /\ RapidWithin(duration, time_window_seconds)
             THEN <<Times(Minus(One, Frac(duration, time_window_seconds)),
                          Frac(6, 10))>>
             ELSE <<>>

\* total_score after the first n messages of the loop
RECURSIVE TotalScore(_, _)
TotalScore(messages, n) ==
    IF n = 0 THEN Zero
    ELSE CHOOSE t \in {Plus(total_score, s) :
                          total_score \in {TotalScore(messages, n - 1)},
                          s \in {Scores[messages[n].content]}} :
             TRUE

\* total_score / message_count
analyze_message_content(messages) ==
    Times(TotalScore(messages, Len(messages)), Frac(1, Len(messages)))

IncreasesOrEqual(score_i, previous) == Ge(score_i, previous)

\* scores[i] > scores[i - 1]
Increases(score_i, previous) == Gt(score_i, previous)

detect_escalation_pattern(messages) ==
    IF Len(messages) < 3 THEN Zero
    ELSE LET scores(i) == Scores[messages[i].content]
             Ratio(increasing_count) ==
                 LET escalation_ratio ==
                         Frac(increasing_count, Len(messages) - 1)
                 IN  IF Gt(escalation_ratio, Frac(5, 10))
                     THEN Times(escalation_ratio, Frac(7, 10))
                     ELSE Zero
         IN  CHOOSE e \in {Ratio(increasing_count) :
                              increasing_count \in
                                  {Cardinality({i \in 2..Len(messages) :
                                                   Increases(scores(i),
                                                             scores(i - 1))})}} :
                 TRUE

IsHostileAbove(content_score) == Gt(content_score, Frac(8, 10))

\* content_score > 0.4
IsHostile(content_score) == Gt(content_score, Frac(4, 10))

IsRapidAtLeast(rapid_score) == Ge(rapid_score, Frac(3, 10))

\* rapid_score > 0.3
IsRapid(rapid_score) == Gt(rapid_score, Frac(3, 10))

IsConflictAbove(confidence) == Gt(confidence, Frac(5, 10))

\* confidence > 0.3
IsConflict(confidence) == Gt(confidence, Frac(3, 10))

EmptyVerdictFlagged ==
    [is_conflict |-> TRUE, confidence |-> Zero, conflict_type |-> <<>>]

\* (false, 0.0, String::new())
EmptyVerdict ==
    [is_conflict |-> FALSE, confidence |-> Zero, conflict_type |-> <<>>]

\* conflict_type holds the reasons in the order they are pushed; the code
\* joins them with ", "
VerdictOf(rapid, content_score, escalation_score) ==
    LET rapid_score == IF rapid = <<>> THEN Zero ELSE rapid[1]
        total_score == Plus(Plus(rapid_score, content_score), escalation_score)
        confidence == MinOf(total_score, One)
    IN  [is_conflict |-> IsConflict(confidence),
         confidence |-> confidence,
         conflict_type |->
             (IF rapid # <<>> /\ IsRapid(rapid_score)
              THEN <<"rapid_exchange">> ELSE <<>>)
             \o (IF IsHostile(content_score)
                 THEN <<"hostile_language">> ELSE <<>>)
             \o (IF Gt(escalation_score, Frac(3, 10))
                 THEN <<"escalating_tension">> ELSE <<>>)]

detect_heated_argument_result(messages, time_window_seconds) ==
    IF Len(messages) < 1 THEN EmptyVerdict
    ELSE CHOOSE v \in
             {VerdictOf(rapid, content_score, escalation_score) :
                 rapid \in {detect_rapid_exchange(messages, time_window_seconds)},
                 content_score \in {analyze_message_content(messages)},
                 escalation_score \in {detect_escalation_pattern(messages)}} :
             TRUE

\* the thresholds of the sensitivities "low", "medium", "high" and "ultra"
Sensitivities == {"low", "medium", "high", "ultra"}

sensitivity_threshold(sensitivity) ==
    CASE sensitivity = "low" -> Frac(7, 10)
      [] sensitivity = "high" -> Frac(35, 100)
      [] sensitivity = "ultra" -> Frac(3, 10)
      [] OTHER -> Frac(5, 10)

\* is_conflict && confidence >= sensitivity_threshold
Mediates(v, threshold) == v.is_conflict /\ Ge(v.confidence, threshold)

\* Database::store_message: a message of the channel is stored; the first
\* author is named u1
store_message(u, text, gap) ==
    /\ Len(window) < MaxWindow
    /\ window = <<>> => (u = "u1" /\ gap = 0)
    /\ window' = Append(window,
                        Message(u, text,
                                IF window = <<>> THEN 0
                                ELSE window[Len(window)].timestamp + gap))
    /\ verdict' = <<>>
    /\ UNCHANGED <<content, score, handler>>

\* the detector analyses the window; the orchestrator then compares the
\* verdict with the threshold of each sensitivity
detect_heated_argument(time_window_seconds) ==
    /\ verdict = <<>>
    /\ \E v \in {detect_heated_argument_result(window, time_window_seconds)} :
          verdict' = <<[is_conflict |-> v.is_conflict,
                        confidence |-> v.confidence,
                        conflict_type |-> v.conflict_type,
                        time_window_seconds |-> time_window_seconds,
                        mediates |-> [s \in Sensitivities |->
                                         Mediates(v, sensitivity_threshold(s))]]>>
    /\ UNCHANGED <<content, score, window, handler>>

DetectNext ==
    \/ \E u \in Users, text \in Contents, gap \in {0, Gap} :
          store_message(u, text, gap)
    \/ \E time_window_seconds \in {Gap, TimeWindow} :
          detect_heated_argument(time_window_seconds)

DetectSpec == DetectorInit /\ [][DetectNext]_vars

\* ------------------------------------------------------------------------
\* ConflictMediator under concurrent callers
\*
\* CommandHandler is shared through an Arc by the handlers of a multi-threaded
\* runtime, so calls of the mediator overlap.  A call is a sequence of steps,
\* one per access to a DashMap: what happens under one guard of a map is one
\* step.  calls[t].at names the access task t is about to make.  The calls
\* are synchronous and take no time on the clock: it advances only while no
\* task is inside a call.
\* ------------------------------------------------------------------------
Idle(t) == calls[t].at = "idle"

Enter(t, op, c, at) ==
    calls' = [calls EXCEPT ![t] = [op |-> op, ch |-> c, at |-> at, now |-> now]]

Leave(t) == calls' = [calls EXCEPT ![t] = NoTask]

\* calls of record_intervention that have not pushed yet
Recording == Cardinality({t \in Tasks : calls[t].op = "record_intervention"})

PushedOnce(times, time) ==
    IF \E i \in 1..Len(times) : times[i] = time THEN times
    ELSE Append(times, time)

\* count_ref.push(now)
Pushed(times, time) == Append(times, time)

\* let now = Instant::now(); self.channel_interventions.insert(.., now)
record_insert(t, c) ==
    /\ Idle(t)
    /\ TotalRecords + Recording < MaxRecords
    /\ Enter(t, "record_intervention", c, "push")
    /\ channel_interventions' = Insert(channel_interventions, c, now)
    /\ UNCHANGED <<now, config, hourly_counts, last, history, phase, flows>>
    /\ UNCHANGED <<inspected, detection, responder, limiter>>

\* self.hourly_counts.entry(..).or_insert_with(Vec::new), count_ref.push(now)
record_push(t) ==
    /\ calls[t].at = "push"
    /\ hourly_counts' = Insert(hourly_counts, calls[t].ch,
                               Pushed(EntryOrEmpty(calls[t].ch), calls[t].now))
    /\ history' = [history EXCEPT ![calls[t].ch] = Append(@, calls[t].now)]
    /\ last' = Call("record_intervention", calls[t].ch, FALSE, NoStats)
    /\ Leave(t)
    /\ UNCHANGED <<now, config, channel_interventions, phase, flows>>
    /\ UNCHANGED <<inspected, detection, responder, limiter>>

\* the cooldown check under the guard of channel_interventions.get; then
\* let now = Instant::now()
can_get(t, c) ==
    /\ Idle(t)
    /\ IF CooldownBlocks(c)
       THEN /\ last' = Call("can_intervene", c, FALSE, NoStats)
            /\ UNCHANGED calls
       ELSE /\ Enter(t, "can_intervene", c, "retain")
            /\ UNCHANGED last
    /\ UNCHANGED <<now, config, mediator, history, phase, flows>>
    /\ UNCHANGED <<inspected, detection, responder, limiter>>

\* entry(..).or_insert_with(Vec::new), retain and the comparison with the cap
can_retain(t) ==
    /\ calls[t].at = "retain"
    /\ \E kept \in {Retain(EntryOrEmpty(calls[t].ch), calls[t].now - HourSecs)} :
          /\ hourly_counts' = Insert(hourly_counts, calls[t].ch, kept)
          /\ last' = Call("can_intervene", calls[t].ch,
                          UnderLimit(Len(kept), max_interventions_per_hour),
                          NoStats)
    /\ Leave(t)
    /\ UNCHANGED <<now, config, channel_interventions, history, phase, flows>>
    /\ UNCHANGED <<inspected, detection, responder, limiter>>

\* self.channel_interventions.remove(channel_id); what was recorded before
\* either removal of a reset no longer counts as recorded since the reset
reset_remove_last(t, c) ==
    /\ Idle(t)
    /\ Enter(t, "reset_channel", c, "remove")
    /\ channel_interventions' = Remove(channel_interventions, c)
    /\ history' = [history EXCEPT ![c] = <<>>]
    /\ phase' = [phase EXCEPT ![c] = "reset"]
    /\ UNCHANGED <<now, config, hourly_counts, last, flows>>
    /\ UNCHANGED <<inspected, detection, responder, limiter>>

\* self.hourly_counts.remove(channel_id)
reset_remove_counts(t) ==
    /\ calls[t].at = "remove"
    /\ hourly_counts' = Remove(hourly_counts, calls[t].ch)
    /\ history' = [history EXCEPT ![calls[t].ch] = <<>>]
    /\ last' = Call("reset_channel", calls[t].ch, FALSE, NoStats)
    /\ Leave(t)
    /\ UNCHANGED <<now, config, channel_interventions, phase, flows>>
    /\ UNCHANGED <<inspected, detection, responder, limiter>>

\* no task is inside a call
Quiescent == \A t \in Tasks : Idle(t)

\* time passes between the calls
RaceTick == Quiescent /\ Advance(MaxTime)

RaceNext ==
    \/ \E t \in Tasks, c \in Contended : record_insert(t, c)
    \/ \E t \in Tasks : record_push(t)
    \/ \E t \in Tasks, c \in Contended : can_get(t, c)
    \/ \E t \in Tasks : can_retain(t)
    \/ \E t \in Tasks, c \in Contended : reset_remove_last(t, c)
    \/ \E t \in Tasks : reset_remove_counts(t)
    \/ RaceTick

RaceSpec == Init /\ [][RaceNext]_vars

\* ------------------------------------------------------------------------
\* RateLimiter
\*
\* Tasks call the limiter concurrently.  A step is what a task does under one
\* guard of the map, or up to the await of sleep.  DashMap::get returns a Ref
\* that holds the read lock of the key's shard until it is dropped;
\* DashMap::entry takes the write lock of the shard, and waits while any Ref
\* of the shard is alive.  Synchronous code takes no time on the clock: it
\* advances only while every task is idle, asleep, or waiting for a lock.
\* ------------------------------------------------------------------------
max_requests == MaxRequests

time_window == WindowSecs

\* the shard of the map a key hashes to
Shard(u) == shards[u]

\* Instant::duration_since saturates at zero
duration_since(later, earlier) == IF later >= earlier THEN later - earlier ELSE 0

\* now.duration_since(time) < self.time_window
Within(elapsed, limit) == elapsed < limit

AtLimitAbove(len, max) == len > max

\* entry.len() >= self.max_requests
AtLimit(len, max) == len >= max

Requests(u) == IF u \in DOMAIN requests THEN requests[u] ELSE <<>>

\* some Ref of the shard of u is alive
ReadLocked(u) ==
    \E s \in Tasks : callers[s].guard /\ Shard(callers[s].user) = Shard(u)

Answer(t, result) ==
    [op |-> callers[t].op, user |-> callers[t].user, result |-> result,
     panicked |-> FALSE]

\* a call begins: let now = Instant::now()
Begin(t, op, u) ==
    [callers EXCEPT ![t] = [NoCaller EXCEPT !.op = op, !.user = u,
                                            !.at = "entry", !.now = now]]

check_rate_limit(t, u) ==
    /\ callers[t].at = "idle"
    /\ now + time_window <= LimiterMaxTime
    /\ callers' = Begin(t, "check_rate_limit", u)
    /\ UNCHANGED <<requests, shards, granted, answer>>
    /\ UNCHANGED <<detection, handler_state, responder, calls>>

\* its first step is check_rate_limit
wait_for_rate_limit(t, u) ==
    /\ callers[t].at = "idle"
    /\ now + time_window <= LimiterMaxTime
    /\ callers' = Begin(t, "wait_for_rate_limit", u)
    /\ UNCHANGED <<requests, shards, granted, answer>>
    /\ UNCHANGED <<detection, handler_state, responder, calls>>

\* entry(user_id).or_insert_with(Vec::new), retain, and push unless the log
\* is full.  wait_for_rate_limit goes on after a false of its first check.
entry(t) ==
    /\ callers[t].at = "entry"
    /\ ~ReadLocked(callers[t].user)
    /\ \E u \in {callers[t].user},
          kept \in {SelectSeq(Requests(callers[t].user),
                              LAMBDA time :
                                  Within(duration_since(callers[t].now, time),
                                         time_window))} :
          IF AtLimit(Len(kept), max_requests)
          THEN /\ requests' = Insert(requests, u, kept)
               /\ UNCHANGED granted
               /\ IF callers[t].op = "wait_for_rate_limit" /\ ~callers[t].guard
                  THEN /\ callers' = [callers EXCEPT ![t].at = "get"]
                       /\ UNCHANGED answer
                  ELSE /\ callers' = [callers EXCEPT ![t] = NoCaller]
                       /\ answer' = Answer(t, FALSE)
          ELSE /\ requests' = Insert(requests, u, Append(kept, callers[t].now))
               /\ granted' = [granted EXCEPT ![u] = Append(@, callers[t].now)]
               /\ callers' = [callers EXCEPT ![t] = NoCaller]
               /\ answer' = Answer(t, TRUE)
    /\ UNCHANGED <<shards, detection, handler_state, responder, calls>>

\* if let Some(entry) = self.requests.get(user_id): the Ref lives to the end
\* of the block, across the sleep and the second check
get(t) ==
    /\ callers[t].at = "get"
    /\ LET u == callers[t].user IN
       IF Requests(u) = <<>>
       THEN /\ callers' = [callers EXCEPT ![t] = NoCaller]
            /\ answer' = Answer(t, FALSE)
       ELSE LET elapsed == now - Requests(u)[1] IN
            IF elapsed > time_window
            THEN /\ callers' = [callers EXCEPT ![t] = NoCaller]
                 /\ answer' = [Answer(t, FALSE) EXCEPT !.panicked = TRUE]
            ELSE IF time_window - elapsed > 0
            THEN /\ callers' = [callers EXCEPT
                                  ![t].at = "sleep",
                                  ![t].wake = now + (time_window - elapsed),
                                  ![t].guard = TRUE]
                 /\ UNCHANGED answer
            ELSE /\ callers' = [callers EXCEPT ![t] = NoCaller]
                 /\ answer' = Answer(t, FALSE)
    /\ UNCHANGED <<requests, shards, granted>>
    /\ UNCHANGED <<detection, handler_state, responder, calls>>

\* sleep(wait_time) is over; self.check_rate_limit(user_id) begins
wake(t) ==
    /\ callers[t].at = "sleep"
    /\ now >= callers[t].wake
    /\ callers' = [callers EXCEPT ![t].at = "entry", ![t].now = now]
    /\ UNCHANGED <<requests, shards, granted, answer>>
    /\ UNCHANGED <<detection, handler_state, responder, calls>>

\* the task waits: asleep, or for the write lock of a shard
Waiting(t) ==
    \/ callers[t].at = "sleep"
    \/ callers[t].at = "entry" /\ ReadLocked(callers[t].user)

\* time passes; the true answers of time_window ago and before are forgotten
LimiterTick ==
    /\ \A t \in Tasks : callers[t].at = "idle" \/ Waiting(t)
    /\ now + TickSecs <= LimiterMaxTime
    /\ now' = now + TickSecs
    /\ granted' = [u \in Limited |->
                      SelectSeq(granted[u],
                                LAMBDA time : now + TickSecs - time < time_window)]
    /\ UNCHANGED <<requests, shards, callers, answer>>
    /\ UNCHANGED <<detection, responder, calls>>
    /\ UNCHANGED <<config, mediator, last, history, phase, flows, inspected>>

Running(t) == entry(t) \/ get(t) \/ wake(t)

LimiterNext ==
    \/ \E t \in Tasks, u \in Limited : check_rate_limit(t, u)
    \/ \E t \in Tasks, u \in Limited : wait_for_rate_limit(t, u)
    \/ \E t \in Tasks : entry(t)
    \/ \E t \in Tasks : get(t)
    \/ \E t \in Tasks : wake(t)
    \/ LimiterTick

LimiterSpec == LimiterInit /\ [][LimiterNext]_vars

\* the runtime runs every task that can run, and time passes
FairLimiterSpec ==
    /\ LimiterSpec
    /\ \A t \in Tasks : WF_vars(Running(t))
    /\ WF_vars(LimiterTick)

\* ------------------------------------------------------------------------
\* ConflictMediator::get_mediation_response
\*
\* A conflict type is a string, written here as the sequence of its pieces:
\* the three reason names, the ", " that joins them and any other text.  No
\* reason name occurs across the boundary of two pieces, so the string
\* contains a name exactly when the name is one of its pieces.
\* ------------------------------------------------------------------------
Pieces == {"rapid_exchange", "hostile_language", "escalating_tension",
           ", ", "other"}

MEDIATION_RESPONSES ==
    <<"From a certain point of view, you're both correct.",
      "Perhaps we might pause and consider that both viewpoints have merit.",
      "I've found that the wisest path often lies in understanding.",
      "It appears this matter requires a touch of patience and diplomacy.",
      "Sometimes the greatest strength is in acknowledging the other's point.",
      "There may be more common ground here than appears at first glance.",
      "Ah, I sense tension in the Force.",
      "In my experience, the truth is often found between two opposing views.",
      "The ability to disagree without hostility is the mark of true wisdom.",
      "I'm reminded of a lesson from my master.">>

RAPID_EXCHANGE_RESPONSES ==
    <<"From what I observe, this conversation has become rather... animated.",
      "I sense we're moving quickly here.">>

HOSTILE_LANGUAGE_RESPONSES ==
    <<"Now, now. I've found that words chosen in anger rarely reflect us.",
      "Perhaps we could choose our words more carefully?">>

ESCALATING_TENSION_RESPONSES ==
    <<"I notice tensions rising.",
      "Before this escalates further, might I suggest we all take a step back?">>

\* str::contains for a reason name
contains_reason(kind, reason) == \E i \in 1..Len(kind) : kind[i] = reason

response_pool_rapid_first(kind) ==
    IF contains_reason(kind, "rapid_exchange") THEN RAPID_EXCHANGE_RESPONSES
    ELSE IF contains_reason(kind, "hostile_language")
    THEN HOSTILE_LANGUAGE_RESPONSES
    ELSE IF contains_reason(kind, "escalating_tension")
    THEN ESCALATING_TENSION_RESPONSES
    ELSE MEDIATION_RESPONSES

response_pool(kind) ==
    IF contains_reason(kind, "hostile_language") THEN HOSTILE_LANGUAGE_RESPONSES
    ELSE IF contains_reason(kind, "rapid_exchange")
    THEN RAPID_EXCHANGE_RESPONSES
    ELSE IF contains_reason(kind, "escalating_tension")
    THEN ESCALATING_TENSION_RESPONSES
    ELSE MEDIATION_RESPONSES

\* rng.random_range(0..response_pool.len()): an empty range panics
random_range(pool) == 0..(Len(pool) - 1)

\* Result of the call: the text, or a panic
get_mediation_response_result(kind, confidence, index) ==
    IF index + 1 \in DOMAIN response_pool(kind)
    THEN [text |-> response_pool(kind)[index + 1], panicked |-> FALSE]
    ELSE [text |-> "", panicked |-> TRUE]

\* the caller writes the conflict type, piece by piece
push_str(piece) ==
    /\ Len(conflict_type) < MaxPieces
    /\ conflict_type' = Append(conflict_type, piece)
    /\ response' = <<>>
    /\ UNCHANGED <<detection, handler_state, calls, limiter>>

\* get_mediation_response(conflict_type, confidence)
mediation_response(confidence) ==
    /\ IF random_range(response_pool(conflict_type)) = {}
       THEN response' = <<[text |-> "", panicked |-> TRUE]>>
       ELSE \E index \in random_range(response_pool(conflict_type)) :
               response' = <<get_mediation_response_result(
                                 conflict_type, confidence, index)>>
    /\ UNCHANGED <<conflict_type, detection, handler_state, calls, limiter>>

ResponseNext ==
    \/ \E piece \in Pieces : push_str(piece)
    \/ \E confidence \in {Zero, One} : mediation_response(confidence)

ResponseSpec == DetectorInit /\ [][ResponseNext]_vars

\* ------------------------------------------------------------------------
\* CommandHandler::check_and_mediate_conflicts
\*
\* One flow runs per inbound guild message; flows of different messages run
\* concurrently.  pc[f] names the await the flow is suspended at; a step runs
\* the code from the completion of that await to the next await or return.
\* Every call of the store and of Discord returns Ok or Err; the generative
\* service answers Ok or Err, or never.
\* ------------------------------------------------------------------------
\* CommandHandler::new: the mediator is built with the cap 999
HandlerInit ==
    /\ \E cooldown_minutes \in {0, LongCooldownMinutes} :
           new(HandlerMaxPerHour, cooldown_minutes)
    /\ InitRest

Set(f, field, v) == [flow EXCEPT ![f][field] = v]

Goto(f, label) == pc' = [pc EXCEPT ![f] = label]

\* what stays of a flow that returned: its locals are dropped, the record of
\* what it did is kept
Returned(r) ==
    [NoFlow EXCEPT !.ch = r.ch, !.conflict_id = r.conflict_id,
                   !.sent = r.sent, !.attempted = r.attempted,
                   !.records = r.records, !.read_failed = r.read_failed,
                   !.mediation = r.mediation]

\* the flow returns Ok(()) or Err
Return(f, label) ==
    /\ Goto(f, label)
    /\ flow' = [flow EXCEPT ![f] = Returned(flow[f])]

\* time passes while flows are suspended
FlowTick == Advance(FlowMaxTime)

\* handle_message calls check_and_mediate_conflicts for a message of channel c
check_and_mediate_conflicts(f, c) ==
    /\ pc[f] = "idle"
    /\ Goto(f, "get_guild_setting")
    /\ flow' = [flow EXCEPT ![f] = [NoFlow EXCEPT !.ch = c]]
    /\ UNCHANGED <<now, config, mediator, last, history, phase, database,
                   attempts>>
    /\ inspected' = <<>>
    /\ UNCHANGED <<detection, apart>>

\* conflict_sensitivity and mediation_cooldown of the guild are read; what
\* they hold is drawn where it is used
get_guild_setting(f) ==
    /\ pc[f] = "get_guild_setting"
    /\ \E ok \in BOOLEAN :
          IF ok
          THEN /\ Goto(f, "get_last_mediation_timestamp")
               /\ UNCHANGED flow
          ELSE Return(f, "err")
    /\ UNCHANGED <<now, config, mediator, last, history, phase, database,
                   attempts>>
    /\ inspected' = <<>>
    /\ UNCHANGED <<detection, apart>>

ReadFailedNever(ok) == FALSE

\* the ? after the await of a read of the store: Err(e) returns Err
ReadFailed(ok) == ~ok

\* SELECT ... FROM mediation_history WHERE channel_id = ? ORDER BY created_at
\* DESC LIMIT 1
LastMediation(c) ==
    LET rows == SelectSeq(mediation_history, LAMBDA r : r.channel_id = c)
    IN  IF rows = <<>> THEN <<>> ELSE <<rows[Len(rows)].created_at>>

get_last_mediation_timestamp(f) ==
    /\ pc[f] = "get_last_mediation_timestamp"
    /\ \E ok \in BOOLEAN :
          IF ReadFailed(ok)
          THEN /\ Goto(f, "err")
               /\ flow' = [flow EXCEPT
                             ![f] = [Returned(flow[f]) EXCEPT !.read_failed = ~ok]]
          ELSE /\ Goto(f, "get_recent_channel_messages")
               /\ flow' = [flow EXCEPT
                             ![f].last_mediation_ts = LastMediation(flow[f].ch),
                             ![f].read_failed = ~ok]
    /\ UNCHANGED <<now, config, mediator, last, history, phase, database,
                   attempts>>
    /\ inspected' = <<>>
    /\ UNCHANGED <<detection, apart>>

\* now - last_ts < cooldown_secs
DatabaseCooldown(f, cooldown_minutes) ==
    /\ flow[f].last_mediation_ts # <<>>
    /\ now - flow[f].last_mediation_ts[1] < cooldown_minutes * SecsPerMinute

\* the windows a flow may read: none, one calm, one shouted message, and an
\* exchange of two hostile ones
FlowWindows ==
    {<<>>,
     <<Message("u1", Calm, 0)>>,
     <<Message("u1", Shout, 0)>>,
     <<Message("u1", Hostile, 0), Message("u2", Hostile, Gap)>>}

Inspect(f, messages) == <<[f |-> f, messages |-> Len(messages)]>>

\* The messages arrive.  An empty window ends the pass; otherwise detection,
\* the comparison with the guild's threshold, both cooldown checks and
\* can_intervene run without an await.
get_recent_channel_messages(f) ==
    /\ pc[f] = "get_recent_channel_messages"
    /\ \E ok \in BOOLEAN, recent_messages \in FlowWindows,
          sensitivity \in Sensitivities,
          cooldown_minutes \in {0, DefaultCooldownMinutes} :
          LET c == flow[f].ch IN
          IF ReadFailed(ok)
          THEN /\ Goto(f, "err")
               /\ flow' = [flow EXCEPT
                             ![f] = [Returned(flow[f]) EXCEPT !.read_failed = ~ok]]
               /\ inspected' = <<>>
               /\ UNCHANGED hourly_counts
          ELSE /\ inspected' = Inspect(f, recent_messages)
               /\ IF Len(recent_messages) < 1
                  THEN /\ Return(f, "ok")
                       /\ UNCHANGED hourly_counts
                  ELSE IF \/ ~Mediates(detect_heated_argument_result(
                                           recent_messages, TimeWindow),
                                       sensitivity_threshold(sensitivity))
                          \/ DatabaseCooldown(f, cooldown_minutes)
                  THEN /\ Return(f, "ok")
                       /\ UNCHANGED hourly_counts
                  ELSE /\ hourly_counts' = can_intervene_counts(c)
                       /\ IF can_intervene_result(c)
                          THEN /\ Goto(f, "record_conflict_detection")
                               /\ flow' = Set(f, "last_mediation_ts", <<>>)
                          ELSE Return(f, "ok")
    /\ UNCHANGED <<now, config, channel_interventions, last, history, phase,
                   database, attempts>>
    /\ UNCHANGED <<detection, apart>>

\* INSERT INTO conflict_detection; the row id comes back
record_conflict_detection(f) ==
    /\ pc[f] = "record_conflict_detection"
    /\ \E ok \in BOOLEAN :
          IF ok
          THEN /\ Goto(f, "generate_mediation_response")
               /\ conflict_detection' =
                      Append(conflict_detection,
                             [channel_id |-> flow[f].ch,
                              mediation_triggered |-> FALSE])
               /\ flow' = Set(f, "conflict_id", Len(conflict_detection) + 1)
          ELSE /\ Return(f, "err")
               /\ UNCHANGED conflict_detection
    /\ UNCHANGED <<now, config, mediator, last, history, phase,
                   mediation_history, attempts>>
    /\ inspected' = <<>>
    /\ UNCHANGED <<detection, apart>>

GenerateErrReturns(ok) == ~ok

\* the match on the result of generate_mediation_response has an Err arm:
\* the flow does not return on Err
GenerateReturns(ok) == FALSE

\* ConflictMediator::get_mediation_response: a text of one of the canned pools
get_mediation_response == "fallback"

\* The service answers: the generated text or, on Err, the text of
\* get_mediation_response; then msg.channel_id.say starts: the delivery
\* attempt.
generate_mediation_response(f) ==
    /\ pc[f] = "generate_mediation_response"
    /\ \E ok \in BOOLEAN :
          IF GenerateReturns(ok)
          THEN /\ Return(f, "err")
               /\ UNCHANGED attempts
          ELSE /\ flow' = [flow EXCEPT
                             ![f].mediation_text =
                                 IF ok THEN "generated" ELSE get_mediation_response,
                             ![f].attempted = TRUE]
               /\ Goto(f, "say")
               /\ attempts' = [attempts EXCEPT ![flow[f].ch] = Append(@, now)]
    /\ UNCHANGED <<now, config, mediator, last, history, phase, database>>
    /\ inspected' = <<>>
    /\ UNCHANGED <<detection, apart>>

\* The service never answers: create().await is not wrapped in a timeout, so
\* nothing resumes the flow.
never_answers(f) ==
    /\ pc[f] = "generate_mediation_response"
    /\ Goto(f, "create")
    /\ UNCHANGED <<now, config, mediator, last, history, phase, flow,
                   database, attempts>>
    /\ inspected' = <<>>
    /\ UNCHANGED <<detection, apart>>

RecordsOnSuccessOnly(sent_ok) == sent_ok

\* both arms of the match on the result of say call record_intervention
Records(sent_ok) == TRUE

AfterSayMarks(sent_ok) == "mark_mediation_triggered"

\* the database call that follows record_intervention in each arm
AfterSay(sent_ok) ==
    IF sent_ok THEN "mark_mediation_triggered" ELSE "record_mediation_unsent"

\* say returns; record_intervention follows in the same poll
say(f) ==
    /\ pc[f] = "say"
    /\ \E sent_ok \in BOOLEAN :
          LET c == flow[f].ch IN
          /\ IF Records(sent_ok)
             THEN /\ channel_interventions' = record_intervention_last(c)
                  /\ hourly_counts' = record_intervention_counts(c)
             ELSE UNCHANGED mediator
          /\ flow' = [flow EXCEPT
                        ![f].sent = IF sent_ok THEN "ok" ELSE "err",
                        ![f].records = @ + (IF Records(sent_ok) THEN 1 ELSE 0)]
          /\ Goto(f, AfterSay(sent_ok))
    /\ UNCHANGED <<now, config, last, history, phase, database, attempts>>
    /\ inspected' = <<>>
    /\ UNCHANGED <<detection, apart>>

\* UPDATE conflict_detection SET mediation_triggered = 1; Err returns (?)
mark_mediation_triggered(f) ==
    /\ pc[f] = "mark_mediation_triggered"
    /\ \E ok \in BOOLEAN :
          IF ok
          THEN /\ Goto(f, "record_mediation")
               /\ conflict_detection' =
                      [conflict_detection EXCEPT
                         ![flow[f].conflict_id].mediation_triggered = TRUE]
               /\ UNCHANGED flow
          ELSE /\ Return(f, "err")
               /\ UNCHANGED conflict_detection
    /\ UNCHANGED <<now, config, mediator, last, history, phase,
                   mediation_history, attempts>>
    /\ inspected' = <<>>
    /\ UNCHANGED <<detection, apart>>

MediationRow(f) ==
    [conflict_id |-> flow[f].conflict_id, channel_id |-> flow[f].ch,
     mediation_message |-> flow[f].mediation_text, created_at |-> now]

\* if participants.len() == 2 the pair's pattern is updated, else Ok(())
AfterMediation(f, outcome) ==
    \E pair \in BOOLEAN :
        IF pair
        THEN /\ Goto(f, "update_user_interaction_pattern")
             /\ flow' = Set(f, "mediation", outcome)
        ELSE /\ Goto(f, "ok")
             /\ flow' = [flow EXCEPT
                           ![f] = [Returned(flow[f]) EXCEPT !.mediation = outcome]]

\* INSERT INTO mediation_history after a successful send; Err returns (?)
record_mediation(f) ==
    /\ pc[f] = "record_mediation"
    /\ \E ok \in BOOLEAN :
          IF ok
          THEN /\ AfterMediation(f, "stored")
               /\ mediation_history' = Append(mediation_history, MediationRow(f))
          ELSE /\ Goto(f, "err")
               /\ flow' = [flow EXCEPT
                             ![f] = [Returned(flow[f]) EXCEPT !.mediation = "failed"]]
               /\ UNCHANGED mediation_history
    /\ UNCHANGED <<now, config, mediator, last, history, phase,
                   conflict_detection, attempts>>
    /\ inspected' = <<>>
    /\ UNCHANGED <<detection, apart>>

\* INSERT INTO mediation_history after a failed send; Err is only logged
record_mediation_unsent(f) ==
    /\ pc[f] = "record_mediation_unsent"
    /\ \E ok \in BOOLEAN :
          IF ok
          THEN /\ mediation_history' = Append(mediation_history, MediationRow(f))
               /\ AfterMediation(f, "stored")
          ELSE /\ UNCHANGED mediation_history
               /\ AfterMediation(f, "failed")
    /\ UNCHANGED <<now, config, mediator, last, history, phase,
                   conflict_detection, attempts>>
    /\ inspected' = <<>>
    /\ UNCHANGED <<detection, apart>>

\* participants.len() == 2: the pair's interaction pattern is updated
update_user_interaction_pattern(f) ==
    /\ pc[f] = "update_user_interaction_pattern"
    /\ \E ok \in BOOLEAN : Return(f, IF ok THEN "ok" ELSE "err")
    /\ UNCHANGED <<now, config, mediator, last, history, phase, database,
                   attempts>>
    /\ inspected' = <<>>
    /\ UNCHANGED <<detection, apart>>

FlowNext ==
    \/ \E f \in Flows, c \in Channels : check_and_mediate_conflicts(f, c)
    \/ \E f \in Flows : get_guild_setting(f)
    \/ \E f \in Flows : get_last_mediation_timestamp(f)
    \/ \E f \in Flows : get_recent_channel_messages(f)
    \/ \E f \in Flows : record_conflict_detection(f)
    \/ \E f \in Flows : generate_mediation_response(f)
    \/ \E f \in Flows : never_answers(f)
    \/ \E f \in Flows : say(f)
    \/ \E f \in Flows : mark_mediation_triggered(f)
    \/ \E f \in Flows : record_mediation(f)
    \/ \E f \in Flows : record_mediation_unsent(f)
    \/ \E f \in Flows : update_user_interaction_pattern(f)
    \/ FlowTick

FlowSpec == HandlerInit /\ [][FlowNext]_vars

\* One flow under the runtime's scheduling: a task whose await completed is
\* polled again, so a step that stays possible is taken.
Solo == "f1"

SoloNext ==
    \/ \E c \in Channels : check_and_mediate_conflicts(Solo, c)
    \/ get_guild_setting(Solo)
    \/ get_last_mediation_timestamp(Solo)
    \/ get_recent_channel_messages(Solo)
    \/ record_conflict_detection(Solo)
    \/ generate_mediation_response(Solo)
    \/ never_answers(Solo)
    \/ say(Solo)
    \/ mark_mediation_triggered(Solo)
    \/ record_mediation(Solo)
    \/ record_mediation_unsent(Solo)
    \/ update_user_interaction_pattern(Solo)
    \/ FlowTick

FairFlowSpec == HandlerInit /\ [][SoloNext]_vars /\ WF_vars(SoloNext)

\* ------------------------------------------------------------------------
\* Properties of the mediator
\* ------------------------------------------------------------------------
CalledCan(c) == last.op = "can_intervene" /\ last.ch = c

Recorded(c) == history[c] # <<>>

SinceLatest(c) == now - Latest(history[c])

\* C1: while less than the cooldown has passed since the latest
\* record_intervention(c), with no reset_channel(c) since, can_intervene(c)
\* returns false.
C1_CooldownBlocks ==
    \A c \in Channels :
        (CalledCan(c) /\ Recorded(c) /\ SinceLatest(c) < mediation_cooldown)
            => last.result = FALSE

C1_Witness ==
    \E c \in Channels :
        /\ CalledCan(c) /\ Recorded(c)
        /\ SinceLatest(c) > 0 /\ SinceLatest(c) < mediation_cooldown
        /\ Len(history[c]) < max_interventions_per_hour
        /\ last.result = FALSE

\* C2: when the cooldown is not active for c, can_intervene(c) returns true
\* exactly when fewer than max_interventions_per_hour interventions recorded
\* for c are less than 3600 seconds old.
C2_HourlyLimit ==
    \A c \in Channels :
        (CalledCan(c) /\ (Recorded(c) => SinceLatest(c) >= mediation_cooldown))
            => (last.result
                   <=> InWindow(history[c], now) < max_interventions_per_hour)

C2_Witness ==
    \E c \in Channels :
        /\ CalledCan(c) /\ last.result
        /\ max_interventions_per_hour >= 1
        /\ Len(history[c]) >= max_interventions_per_hour
        /\ now - history[c][1] = HourSecs

\* C4: when every record_intervention(c) comes right after a can_intervene(c)
\* that returned true, no more than max_interventions_per_hour interventions
\* of c lie in a trailing window of 3600 seconds.
C4_WindowCap ==
    \A c \in Channels :
        InWindow(history[c], now) <= max_interventions_per_hour

C4_Witness ==
    \E c \in Channels :
        /\ last.op = "record_intervention" /\ last.ch = c
        /\ InWindow(history[c], now) = max_interventions_per_hour
        /\ Len(history[c]) > max_interventions_per_hour

\* C7: get_channel_stats(c) changes neither map of the mediator.
C7_StatsReadOnly ==
    [][\A c \in Channels : get_channel_stats(c) => UNCHANGED mediator]_vars

\* C8: a can_intervene(c) that follows a can_intervene(c) at the same clock
\* reading returns what the first returned and leaves both maps unchanged.
C8_Idempotent ==
    [][\A c \in Channels :
          (CalledCan(c) /\ can_intervene(c))
              => (last'.result = last.result /\ UNCHANGED mediator)]_vars

C8_Witness ==
    \E c \in Channels :
        /\ CalledCan(c) /\ last.again /\ last.result
        /\ Recorded(c)

\* C9: once the cooldown has passed since the latest record_intervention(c),
\* can_intervene(c) returns true whenever fewer than
\* max_interventions_per_hour interventions of c are less than 3600 s old.
C9_CooldownEnds ==
    \A c \in Channels :
        (/\ CalledCan(c) /\ Recorded(c)
         /\ SinceLatest(c) >= mediation_cooldown
         /\ InWindow(history[c], now) < max_interventions_per_hour)
            => last.result = TRUE

C9_Witness ==
    \E c \in Channels :
        /\ CalledCan(c) /\ Recorded(c)
        /\ mediation_cooldown > 0
        /\ SinceLatest(c) = mediation_cooldown
        /\ last.result = TRUE

\* C10: with max_interventions_per_hour >= 1, on a channel never referenced
\* or just reset, can_intervene returns true and get_channel_stats reports
\* interventions_last_hour = 0 and can_intervene = true.
C10_FreshChannel ==
    (max_interventions_per_hour >= 1 /\ last.before \in {"new", "reset"})
        => /\ last.op = "can_intervene" => last.result = TRUE
           /\ last.op = "get_channel_stats"
                  => /\ last.stats.interventions_last_hour = 0
                     /\ last.stats.can_intervene = TRUE

C10_Witness ==
    /\ last.op = "get_channel_stats" /\ last.before = "reset"
    /\ max_interventions_per_hour = 1
    /\ last.stats.can_intervene
    /\ \E d \in Channels : d # last.ch /\ Recorded(d)

\* ------------------------------------------------------------------------
\* Properties of the orchestrator flow
\* ------------------------------------------------------------------------
\* C3: any two delivery attempts in one channel are at least the cooldown
\* apart, also when flows of that channel run concurrently.
C3_AttemptsApart ==
    \A c \in Channels :
        \A i, j \in 1..Len(attempts[c]) :
            i < j => attempts[c][j] - attempts[c][i] >= mediation_cooldown

\* C5: from the start of the delivery attempt on, the flow has recorded its
\* intervention in the mediator.
C5_RecordedBeforeSend ==
    \A f \in Flows : flow[f].attempted => flow[f].records >= 1

\* C6: a flow whose send returned, with success or failure, has called
\* record_intervention exactly once; a flow that has not attempted delivery
\* has never called it, and no flow calls it twice.
C6_RecordedOnce ==
    \A f \in Flows :
        /\ flow[f].sent # "none" => flow[f].attempted /\ flow[f].records = 1
        /\ ~flow[f].attempted => flow[f].records = 0
        /\ flow[f].records <= 1

C6_Witness ==
    \E f, g \in Flows :
        /\ pc[f] = "ok" /\ flow[f].sent = "err" /\ flow[f].records = 1
        /\ pc[g] \in {"ok", "err"} /\ ~flow[g].attempted

\* ------------------------------------------------------------------------
\* Properties of the flow: failures of collaborators
\* ------------------------------------------------------------------------
Finished(f) == pc[f] \in {"ok", "err"}

\* C11: every flow that attempted delivery has, when it ends, recorded the
\* intervention in the mediator and invoked record_mediation with the text,
\* whatever other write of the flow failed.
C11_RecordedInBoth ==
    \A f \in Flows :
        (flow[f].attempted /\ Finished(f))
            => (flow[f].records = 1 /\ flow[f].mediation # "none")

\* C12: a flow that waits for the generative service and gets its answer,
\* Ok or Err, goes on to the delivery attempt; on Err the text is the one
\* of get_mediation_response.  No answer makes the flow return.
C12_FallbackOnError ==
    [][\A f \in Flows :
          (pc[f] = "generate_mediation_response"
             /\ pc'[f] \notin {"generate_mediation_response", "create"})
          => /\ pc'[f] = "say"
             /\ flow'[f].attempted
             /\ flow'[f].mediation_text \in {"generated", get_mediation_response}
             /\ attempts'[flow[f].ch] = Append(attempts[flow[f].ch], now)]_vars

C12_Witness ==
    \E f \in Flows :
        /\ pc[f] = "say"
        /\ flow[f].mediation_text = get_mediation_response
        /\ flow[f].attempted

\* C13: a flow whose request to the generative service is never answered
\* still reaches the delivery attempt.
C13_DeliveryReached ==
    \A f \in Flows : (pc[f] = "create") ~> flow[f].attempted

C15_MarkedOnlyWhenSent ==
    /\ [](\A f \in Flows :
             /\ pc[f] = "mark_mediation_triggered" => flow[f].sent = "ok"
             /\ (flow[f].conflict_id # 0
                   /\ conflict_detection[flow[f].conflict_id].mediation_triggered)
                    => flow[f].sent = "ok"
             /\ flow[f].sent = "err"
                    => /\ pc[f] \in {"record_mediation_unsent",
                                     "update_user_interaction_pattern", "ok", "err"}
                       /\ (pc[f] # "record_mediation_unsent")
                              => flow[f].mediation \in {"stored", "failed"}
                       /\ flow[f].mediation = "stored"
                              => \E i \in 1..Len(mediation_history) :
                                    /\ mediation_history[i].conflict_id
                                           = flow[f].conflict_id
                                    /\ mediation_history[i].mediation_message
                                           \in {"generated", get_mediation_response})
    /\ [][\A f \in Flows :
             (flow[f].sent = "err" /\ pc[f] # "err" /\ pc'[f] = "err")
                 => pc[f] = "update_user_interaction_pattern"]_vars

C15_Witness ==
    \E f \in Flows :
        /\ flow[f].sent = "err"
        /\ flow[f].mediation = "stored"
        /\ pc[f] = "ok"
        /\ ~conflict_detection[flow[f].conflict_id].mediation_triggered

\* ------------------------------------------------------------------------
\* Properties of the detector
\* ------------------------------------------------------------------------
\* C16: for every window and every configured threshold the verdict's
\* is_conflict equals (confidence > threshold), and the orchestrator starts
\* a mediation only when confidence is strictly greater than the threshold.
C16_ThresholdDecides ==
    verdict # <<>> =>
        \A s \in Sensitivities :
            /\ verdict[1].is_conflict
                   = Gt(verdict[1].confidence, sensitivity_threshold(s))
            /\ verdict[1].mediates[s]
                   => Gt(verdict[1].confidence, sensitivity_threshold(s))

\* the rapid-exchange contribution: the score when there is one, else 0
RapidScore(messages, time_window_seconds) ==
    LET rapid == detect_rapid_exchange(messages, time_window_seconds)
    IN  IF rapid = <<>> THEN Zero ELSE rapid[1]

\* C17: for every non-empty chronological window and positive time window,
\* confidence is min(1.0, rapid-exchange contribution + mean hostility +
\* escalation contribution), and 0 <= confidence <= 1.
C17_ConfidenceIsClampedSum ==
    (verdict # <<>> /\ window # <<>>) =>
        \E rapid_score \in {RapidScore(window, verdict[1].time_window_seconds)},
           mean \in {analyze_message_content(window)},
           escalation \in {detect_escalation_pattern(window)} :
            /\ Ge(rapid_score, Zero)
            /\ IF Ge(Plus(Plus(rapid_score, mean), escalation), One)
               THEN Eq(verdict[1].confidence, One)
               ELSE verdict[1].confidence
                        = Plus(Plus(rapid_score, mean), escalation)
            /\ Ge(verdict[1].confidence, Zero)
            /\ Ge(One, verdict[1].confidence)

\* a verdict of a window that was clamped, and one that was not
C17_Witness ==
    /\ verdict # <<>>
    /\ Len(window) = MaxWindow
    /\ detect_rapid_exchange(window, verdict[1].time_window_seconds) # <<>>
    /\ Gt(detect_escalation_pattern(window), Zero)
    /\ Eq(verdict[1].confidence, One)

\* C18: the score of a text is min(1.0, min(0.4 k, 0.8) + 0.3 [more than 20%
\* of the letters are uppercase] + 0.2 [a run of 3 or more of ! and ?]
\* + 0.2 [2 or more runs of 5 or more uppercase letters]), k being the
\* number of keywords that occur in the lowercased text; it lies in [0, 1],
\* is 0 for a text with none of the markers and at least 0.4 for a text with
\* a keyword.
C18_ScoreFormula ==
    score # <<>> =>
        \A text \in {Text(content)} :
        \A capitals \in {{i \in 1..Len(text) : is_uppercase(text[i])}},
           k \in {Cardinality({keyword \in HOSTILE_KEYWORDS :
                     \E i \in 1..Len(text) :
                         \A n \in 1..Len(keyword) :
                             /\ i + n - 1 <= Len(text)
                             /\ to_lowercase(<<text[i + n - 1]>>)
                                    = <<keyword[n]>>})} :
            LET T == 1..Len(text)
                letters == {i \in T : is_alphabetic(text[i])}
                caps == IF 5 * Cardinality(capitals) > Cardinality(letters)
                        THEN 1 ELSE 0
                punctuation ==
                    IF \E i \in T :
                           /\ i + 2 \in T
                           /\ {text[i], text[i + 1], text[i + 2]}
                                  \subseteq {"!", "?"}
                    THEN 1 ELSE 0
                runs == {i \in capitals :
                            /\ (i - 1) \notin capitals
                            /\ \A j \in i..(i + 4) : j \in capitals}
                shouting == IF Cardinality(runs) >= 2 THEN 1 ELSE 0
                keywords == IF 4 * k < 8 THEN 4 * k ELSE 8
            IN  \A sum \in {keywords + 3 * caps + 2 * punctuation + 2 * shouting} :
                    /\ Eq(score[1], Frac(IF sum < 10 THEN sum ELSE 10, 10))
                    /\ Ge(score[1], Zero)
                    /\ Ge(One, score[1])
                    /\ sum = 0 => Eq(score[1], Zero)
                    /\ k >= 1 => Ge(score[1], Frac(4, 10))

\* a scored text with three keywords, and one with a keyword and two runs
C18_Witness ==
    /\ score # <<>>
    /\ keyword_count(Text(content)) >= 1
    /\ caps_pattern(Text(content)) >= 2
    /\ Eq(score[1], Frac(9, 10))

\* C19: for a window of exactly two authors with at least two messages each,
\* all within 120 seconds, and mean hostility above 0.4, the verdict is a
\* conflict, its confidence exceeds 0.3 and its reasons contain
\* hostile_language.
C19_HostileExchangeDetected ==
    (/\ verdict # <<>>
     /\ verdict[1].time_window_seconds = TimeWindow
     /\ Cardinality({window[i].user_id : i \in 1..Len(window)}) = 2
     /\ \A u \in {window[i].user_id : i \in 1..Len(window)} :
            Cardinality({i \in 1..Len(window) : window[i].user_id = u}) >= 2
     /\ window[Len(window)].timestamp - window[1].timestamp <= TimeWindow
     /\ Gt(Frac(TotalScore(window, Len(window))[1],
                TotalScore(window, Len(window))[2] * Len(window)),
           Frac(4, 10)))
        => /\ verdict[1].is_conflict
           /\ Gt(verdict[1].confidence, Frac(3, 10))
           /\ \E i \in 1..Len(verdict[1].conflict_type) :
                  verdict[1].conflict_type[i] = "hostile_language"

C19_Witness ==
    /\ verdict # <<>>
    /\ verdict[1].time_window_seconds = TimeWindow
    /\ Len(window) = 4
    /\ {window[i].user_id : i \in 1..Len(window)} = {"u1", "u2"}
    /\ user_messages(window) = [u \in {"u1", "u2"} |-> 2]
    /\ window[4].timestamp = TimeWindow
    /\ Gt(analyze_message_content(window), Frac(4, 10))
    /\ verdict[1].conflict_type = <<"hostile_language">>

\* C20: detect_heated_argument of an empty window is (false, 0.0, no
\* reasons), and a flow that read an empty window has returned Ok; its step
\* consulted neither can_intervene nor the tables.
C20_EmptyWindowEndsPass ==
    /\ [](\A f \in Flows :
             (inspected # <<>> /\ inspected[1].f = f
                /\ inspected[1].messages = 0)
                 => /\ detect_heated_argument_result(<<>>, TimeWindow)
                        = [is_conflict |-> FALSE, confidence |-> <<0, 1>>,
                           conflict_type |-> <<>>]
                    /\ pc[f] = "ok"
                    /\ ~flow[f].attempted
                    /\ flow[f].conflict_id = 0)
    /\ [][(inspected' # <<>> /\ inspected'[1].messages = 0)
             => UNCHANGED <<mediator, database, attempts>>]_vars

C20_Witness ==
    \E f, g \in Flows :
        /\ inspected # <<>>
        /\ inspected[1].f = f
        /\ inspected[1].messages = 0
        /\ flow[g].ch = flow[f].ch
        /\ flow[g].records = 1

\* the authors of a window and the seconds from its first to its last message
Authors(messages) == {messages[i].user_id : i \in 1..Len(messages)}

Duration(messages) == messages[Len(messages)].timestamp - messages[1].timestamp

\* C26: the rapid-exchange contribution is non-zero only for a window of
\* exactly two authors with at least two messages each whose last message is
\* at most time_window_seconds after its first; it is then
\* (1 - duration / time_window_seconds) * 0.6, it never exceeds 0.6, and the
\* reason rapid_exchange is flagged exactly when it exceeds 0.3.
C26_RapidContribution ==
    (verdict # <<>> /\ window # <<>>) =>
        \A w \in {verdict[1].time_window_seconds},
           rapid_score \in {RapidScore(window, verdict[1].time_window_seconds)} :
            LET exchange ==
                    /\ Cardinality(Authors(window)) = 2
                    /\ \A u \in Authors(window) :
                           Cardinality({i \in 1..Len(window) :
                                           window[i].user_id = u}) >= 2
                    /\ Duration(window) <= w
                flagged == \E i \in 1..Len(verdict[1].conflict_type) :
                               verdict[1].conflict_type[i] = "rapid_exchange"
            IN  /\ (rapid_score[1] # 0) => exchange
                /\ exchange =>
                       rapid_score[1] * (w * 10)
                           = ((w - Duration(window)) * 6) * rapid_score[2]
                /\ rapid_score[1] * 10 <= 6 * rapid_score[2]
                /\ flagged <=> (rapid_score[1] * 10 > 3 * rapid_score[2])
                /\ flagged <=>
                       (exchange /\ (w - Duration(window)) * 6 * 10 > 3 * (w * 10))

\* an exchange whose contribution is exactly 0.3, and one above it
C26_Witness ==
    /\ verdict # <<>>
    /\ Len(window) = 4
    /\ user_messages(window) = [u \in {"u1", "u2"} |-> 2]
    /\ Duration(window) = Gap
    /\ verdict[1].time_window_seconds = 2 * Gap
    /\ Eq(RapidScore(window, 2 * Gap), Frac(3, 10))
    /\ \A i \in 1..Len(verdict[1].conflict_type) :
           verdict[1].conflict_type[i] # "rapid_exchange"

\* C27: the escalation contribution is 0 for fewer than 3 messages; for
\* n >= 3 messages, with ratio the number of adjacent pairs whose score
\* strictly increases over n - 1, it is ratio * 0.7 when ratio > 0.5 and 0
\* otherwise; it never exceeds 0.7 and equal adjacent scores do not count.
C27_EscalationContribution ==
    (verdict # <<>> /\ window # <<>>) =>
        \A n \in {Len(window)},
           escalation_score \in {detect_escalation_pattern(window)} :
            LET s(i) == Scores[window[i].content]
                rising == Cardinality({i \in 1..(n - 1) :
                              s(i + 1)[1] * s(i)[2] > s(i)[1] * s(i + 1)[2]})
            IN  /\ n < 3 => escalation_score[1] = 0
                /\ (n >= 3 /\ 2 * rising > n - 1) =>
                       escalation_score[1] * ((n - 1) * 10)
                           = (rising * 7) * escalation_score[2]
                /\ (n >= 3 /\ 2 * rising <= n - 1) => escalation_score[1] = 0
                /\ escalation_score[1] * 10 <= 7 * escalation_score[2]

\* a window whose scores rise once, stay equal once and fall never: the one
\* rise out of two pairs is not more than half
C27_Witness ==
    /\ verdict # <<>>
    /\ Len(window) = 3
    /\ window[1].content = Calm
    /\ window[2].content = Shout
    /\ window[3].content = Shout
    /\ detect_escalation_pattern(window) = Zero

\* C30: a verdict with a reason is a conflict, and each reason is flagged only
\* when its own contribution exceeds 0.3.
C30_ReasonImpliesConflict ==
    (verdict # <<>> /\ window # <<>> /\ verdict[1].time_window_seconds > 0) =>
        /\ verdict[1].conflict_type # <<>> => verdict[1].is_conflict
        /\ \A i \in 1..Len(verdict[1].conflict_type) :
               \A reason \in {verdict[1].conflict_type[i]} :
                   Gt(CASE reason = "rapid_exchange" ->
                               RapidScore(window,
                                          verdict[1].time_window_seconds)
                        [] reason = "hostile_language" ->
                               analyze_message_content(window)
                        [] reason = "escalating_tension" ->
                               detect_escalation_pattern(window),
                      Frac(3, 10))

\* a lone shouted message: hostile_language is its only reason and its
\* confidence is 0.5
C30_Witness ==
    /\ verdict # <<>>
    /\ Len(window) = 1
    /\ window[1].content = Shout
    /\ verdict[1].conflict_type = <<"hostile_language">>
    /\ Eq(verdict[1].confidence, Frac(5, 10))
    /\ verdict[1].is_conflict

\* the texts of a pool
Range(pool) == {pool[i] : i \in 1..Len(pool)}

\* C21: get_mediation_response never fails and returns a non-empty text of the
\* pool of its conflict type: the hostile_language pool when the type contains
\* hostile_language, else the rapid_exchange pool when it contains
\* rapid_exchange, else the escalating_tension pool when it contains
\* escalating_tension, else the default pool, as for the empty type and for
\* a type with no reason name.
C21_ResponseFromPool ==
    response # <<>> =>
        LET has(reason) == reason \in Range(conflict_type)
        IN  /\ ~response[1].panicked
            /\ response[1].text # ""
            /\ response[1].text \in
                   Range(CASE has("hostile_language") ->
                                  HOSTILE_LANGUAGE_RESPONSES
                           [] ~has("hostile_language") /\ has("rapid_exchange") ->
                                  RAPID_EXCHANGE_RESPONSES
                           [] /\ ~has("hostile_language")
                              /\ ~has("rapid_exchange")
                              /\ has("escalating_tension") ->
                                  ESCALATING_TENSION_RESPONSES
                           [] OTHER -> MEDIATION_RESPONSES)
            /\ (conflict_type = <<>> \/ Range(conflict_type) \subseteq {"other", ", "})
                   => response[1].text \in Range(MEDIATION_RESPONSES)

\* a response to "rapid_exchange, hostile_language" from the hostile pool
C21_Witness ==
    /\ conflict_type = <<"rapid_exchange", ", ", "hostile_language">>
    /\ response # <<>>
    /\ response[1].text = HOSTILE_LANGUAGE_RESPONSES[2]

\* what a map holds for a channel: Option
Get(m, c) == IF c \in DOMAIN m THEN <<m[c]>> ELSE <<>>

\* C22: a call of can_intervene, record_intervention, get_channel_stats or
\* reset_channel on a channel c leaves last_intervention and hourly_log of
\* every other channel d as they were, and with them what can_intervene(d)
\* returns.
C22_OtherChannelsUntouched ==
    [][\A c \in Channels :
          (last'.op \in {"can_intervene", "record_intervention",
                         "get_channel_stats", "reset_channel"}
             /\ last'.ch = c)
              => \A d \in Channels \ {c} :
                    /\ Get(channel_interventions', d)
                           = Get(channel_interventions, d)
                    /\ Get(hourly_counts', d) = Get(hourly_counts, d)
                    /\ can_intervene_result(d)' = can_intervene_result(d)]_vars

\* c1 was reset while c2 holds a recorded intervention and is in cooldown
C22_Witness ==
    /\ last.op = "reset_channel"
    /\ last.ch = "c1"
    /\ Get(channel_interventions, "c1") = <<>>
    /\ Get(channel_interventions, "c2") # <<>>
    /\ Get(hourly_counts, "c2") # <<>>
    /\ Len(hourly_counts["c2"]) = MaxRecords
    /\ ~can_intervene_result("c2")

\* C24: a pass that reads the time of the last mediation of its channel after
\* another flow attempted a delivery there and ended gets a time that is not
\* before that attempt, so that the messages it then asks for (those with
\* timestamp > that time) were all stored after the mediation.
C24_MediatedWindowNotReread ==
    [][\A f \in Flows :
          (/\ pc[f] = "get_last_mediation_timestamp"
           /\ pc'[f] = "get_recent_channel_messages"
           /\ \E g \in Flows \ {f} :
                  flow[g].ch = flow[f].ch /\ flow[g].attempted
           /\ \A g \in Flows \ {f} :
                  (flow[g].ch = flow[f].ch /\ flow[g].attempted) => Finished(g))
              => /\ flow'[f].last_mediation_ts # <<>>
                 /\ flow'[f].last_mediation_ts[1]
                        >= Latest(attempts[flow[f].ch])]_vars

\* C25: when the record_intervention(c) calls begun so far have all
\* completed, no reset_channel(c) was ever begun and none of the recorded
\* instants is 3600 seconds old, hourly_log of c holds one entry per call:
\* the N instants recorded, each once, whatever can_intervene was doing.
C25_NoEntryLostOrDuplicated ==
    \A c \in Channels :
        (/\ \A t \in Tasks :
               ~(calls[t].op = "record_intervention" /\ calls[t].ch = c)
         /\ phase[c] # "reset"
         /\ \A i \in 1..Len(history[c]) : now - history[c][i] < HourSecs)
            => /\ Len(EntryOrEmpty(c)) = Len(history[c])
               /\ \A time \in Range(history[c]) \cup Range(EntryOrEmpty(c)) :
                      Cardinality({i \in 1..Len(EntryOrEmpty(c)) :
                                      EntryOrEmpty(c)[i] = time})
                          = Cardinality({i \in 1..Len(history[c]) :
                                            history[c][i] = time})

\* two calls recorded the same instant while a can_intervene was between its
\* cooldown check and its pruning
C25_Witness ==
    /\ Len(history["c1"]) = 2
    /\ history["c1"][1] = history["c1"][2]
    /\ phase["c1"] = "new"
    /\ last.op = "record_intervention"
    /\ \E t \in Tasks : calls[t].at = "retain" /\ calls[t].ch = "c1"
    /\ Len(hourly_counts["c1"]) = 2

\* the newest of the instants of h
Newest(h) == CHOOSE time \in Range(h) : \A other \in Range(h) : other <= time

\* C29: whenever no task is inside a call, last_intervention(c) is set exactly
\* when an intervention was recorded since the last reset_channel(c), and is
\* then the newest instant appended to hourly_log(c) since that reset.
C29_MapsAgreeWhenQuiescent ==
    Quiescent =>
        \A c \in Channels :
            /\ (c \in DOMAIN channel_interventions) <=> (history[c] # <<>>)
            /\ (c \in DOMAIN channel_interventions)
                   => channel_interventions[c] = Newest(history[c])

\* a step in which the check_rate_limit of task t ran its guarded section
Checked(t) == callers[t].at = "entry" /\ callers'[t].at # "entry"

\* C23: for each user, the calls that returned true less than time_window ago
\* are at most max_requests; a call that returns false adds nothing to the
\* log of its user; and a call made when time_window has passed since the
\* oldest request of the log returns true.
C23_SlidingWindow ==
    /\ [](\A u \in Limited : Len(granted[u]) <= max_requests)
    /\ [][\A t \in Tasks :
            Checked(t) =>
                \A u \in {callers[t].user} :
                    /\ (granted'[u] = granted[u]) =>
                           /\ Range(Requests(u)') \subseteq Range(Requests(u))
                           /\ Len(Requests(u)') <= Len(Requests(u))
                           /\ callers[t].op = "check_rate_limit"
                                  => (answer'.user = u /\ ~answer'.result)
                    /\ (/\ Requests(u) # <<>>
                        /\ \A i \in 1..Len(Requests(u)) :
                               Requests(u)[1] <= Requests(u)[i]
                        /\ now - Requests(u)[1] >= time_window) =>
                           /\ granted'[u] = Append(granted[u], now)
                           /\ answer' = [op |-> callers[t].op, user |-> u,
                                         result |-> TRUE, panicked |-> FALSE]]_vars

\* u1 was answered true at 0, at TickSecs and, the first request having left
\* the window, again at WindowSecs, while the other task is inside a call
C23_Witness ==
    /\ now = WindowSecs
    /\ answer = [op |-> "check_rate_limit", user |-> "u1", result |-> TRUE,
                 panicked |-> FALSE]
    /\ requests["u1"] = <<TickSecs, WindowSecs>>
    /\ granted["u1"] = <<TickSecs, WindowSecs>>
    /\ \E t \in Tasks : callers[t].at = "entry" /\ callers[t].user = "u1"

\* C28: every call of wait_for_rate_limit returns, also when it has to sleep
\* until the oldest request leaves the window and check again; and while it
\* sleeps, a check_rate_limit for another user can take its step.
C28_WaitReturns ==
    /\ \A t \in Tasks :
           (callers[t].op = "wait_for_rate_limit") ~> (callers[t].at = "idle")
    /\ [](\A t \in Tasks, s \in Tasks :
             (/\ callers[s].at = "sleep"
              /\ callers[t].at = "entry"
              /\ callers[t].user # callers[s].user)
                 => ENABLED entry(t))

====
